---- MODULE Spec2Model ----
(***************************************************************************)
(* A model of one AGI session of package agi (src/agi.go): the Command     *)
(* method (mutex, write, reader goroutine, select on waitC and the timer), *)
(* the reply grammar, and the peer (Asterisk) at the other end of the      *)
(* streams.  Lines are TLA+ strings; the input stream is handled at line   *)
(* granularity: a Read of a.r returns the lines that have arrived from the *)
(* peer, one or more, or the end of the stream.                            *)
(***************************************************************************)
EXTENDS Integers, Sequences, FiniteSets, TLC

(***************************************************************************)
(* Bounds of the model.                                                    *)
(***************************************************************************)
\* number of Command calls made on the session
MaxCalls == 2
\* number of lines the peer sends on the session's input stream
MaxLines == 2

Calls == 1..MaxCalls

(***************************************************************************)
(* Strings: the helpers of package strings and strconv that Command uses.  *)
(***************************************************************************)
Ch(s, i) == SubSeq(s, i, i)

Digit == {"0", "1", "2", "3", "4", "5", "6", "7", "8", "9"}

Letter == {"a", "b", "c", "d", "e", "f", "g", "h", "i", "j", "k", "l", "m",
           "n", "o", "p", "q", "r", "s", "t", "u", "v", "w", "x", "y", "z",
           "A", "B", "C", "D", "E", "F", "G", "H", "I", "J", "K", "L", "M",
           "N", "O", "P", "Q", "R", "S", "T", "U", "V", "W", "X", "Y", "Z"}

\* [[:alnum:]] of the regular expression
Alnum == Digit \cup Letter

\* \s of the regular expression: [\t\n\f\r ]
Space == {" ", "\t", "\n", "\f", "\r"}

\* unicode.IsSpace, the characters strings.TrimSpace removes: \t \n \v \f
\* \r, the space, U+0085, U+00A0 and U+1680.  (The other characters of
\* unicode.IsSpace, U+2000 to U+200A, U+2028, U+2029, U+202F, U+205F and
\* U+3000, cannot be written in a string of TLA+.)
IsSpace == Space \cup {"", "", " ", " "}

DigitVal(d) ==
  CASE d = "0" -> 0 [] d = "1" -> 1 [] d = "2" -> 2 [] d = "3" -> 3
    [] d = "4" -> 4 [] d = "5" -> 5 [] d = "6" -> 6 [] d = "7" -> 7
    [] d = "8" -> 8 [] d = "9" -> 9

\* strings.HasPrefix
HasPrefix(s, p) == Len(s) >= Len(p) /\ SubSeq(s, 1, Len(p)) = p

\* strings.HasSuffix
HasSuffix(s, p) == Len(s) >= Len(p) /\ SubSeq(s, Len(s) - Len(p) + 1, Len(s)) = p

\* strings.TrimPrefix
TrimPrefix(s, p) == IF HasPrefix(s, p) THEN SubSeq(s, Len(p) + 1, Len(s)) ELSE s

\* strings.TrimSuffix
TrimSuffix(s, p) == IF HasSuffix(s, p) THEN SubSeq(s, 1, Len(s) - Len(p)) ELSE s

\* strings.TrimSpace, its leading part
RECURSIVE TrimLeft(_)
TrimLeft(s) ==
  IF Len(s) > 0 /\ Ch(s, 1) \in IsSpace
  THEN TrimLeft(SubSeq(s, 2, Len(s))) ELSE s

\* strings.TrimSpace, its trailing part
RECURSIVE TrimRight(_)
TrimRight(s) ==
  IF Len(s) > 0 /\ Ch(s, Len(s)) \in IsSpace
  THEN TrimRight(SubSeq(s, 1, Len(s) - 1)) ELSE s

\* strings.TrimSpace
TrimSpace(s) == TrimRight(TrimLeft(s))

AllIn(s, set) == \A i \in 1..Len(s) : Ch(s, i) \in set

RECURSIVE DecVal(_)
DecVal(s) ==
  IF Len(s) = 0 THEN 0
  ELSE 10 * DecVal(SubSeq(s, 1, Len(s) - 1)) + DigitVal(Ch(s, Len(s)))

(***************************************************************************)
(* fmt.Errorf on a format and no argument (line 289 hands the raw line to  *)
(* it inside the format).  The text is copied up to a '%'; after a '%'     *)
(* come flags, an argument index in brackets, a width, a precision and the *)
(* verb, and each verb other than '%' is printed as the error of its       *)
(* missing argument.  The positions are those of bytes: the format is      *)
(* taken to hold ASCII characters.                                         *)
(***************************************************************************)
\* the flags after the '%' are skipped: the position after them
RECURSIVE skipFlags(_, _)
skipFlags(format, i) ==
  IF i <= Len(format) /\ Ch(format, i) \in {"#", "0", "+", "-", " "}
  THEN skipFlags(format, i + 1) ELSE i

\* fmt.parsenum on format[i..end-1], having read num: a number was read
\* (isnum) and the position after it; a number above 1e6 which goes on is
\* too large, no number, and leaves the position at end
RECURSIVE parsenum(_, _, _, _, _)
parsenum(format, i, end, num, isnum) ==
  IF i < end /\ Ch(format, i) \in Digit
  THEN IF num > 1000000
       THEN [isnum |-> FALSE, newi |-> end]
       ELSE parsenum(format, i + 1, end, num * 10 + DigitVal(Ch(format, i)),
                     TRUE)
  ELSE [isnum |-> isnum, newi |-> i]

\* the position of the first ']' of format from position i on, 0 for none
RECURSIVE closingBracket(_, _)
closingBracket(format, i) ==
  IF i > Len(format) THEN 0
  ELSE IF Ch(format, i) = "]" THEN i
  ELSE closingBracket(format, i + 1)

\* pp.argNumber with no arguments: format[i] is not a '[' and nothing is
\* read, or an index is read, which no argument has (bad): the position
\* after it, and whether it was a well-formed index (found)
argNumber(format, i) ==
  IF i > Len(format) \/ Ch(format, i) # "["
  THEN [newi |-> i, found |-> FALSE, bad |-> FALSE]
  ELSE LET j == closingBracket(format, i + 1)
       IN  IF Len(format) - i + 1 < 3 \/ j = 0
           THEN [newi |-> i + 1, found |-> FALSE, bad |-> TRUE]
           ELSE LET n == parsenum(format, i + 1, j, 0, FALSE)
                IN  [newi |-> j + 1,
                     found |-> n.isnum /\ n.newi = j,
                     bad |-> TRUE]

\* pp.doPrintf with no arguments, from position i of the format on, buf
\* being what is printed so far
RECURSIVE doPrintf(_, _, _)
doPrintf(format, i, buf) ==
  IF i > Len(format) THEN buf
  ELSE IF Ch(format, i) # "%" THEN doPrintf(format, i + 1, buf \o Ch(format, i))
  ELSE
    LET end    == Len(format) + 1
        a1     == argNumber(format, skipFlags(format, i + 1))
        star1  == a1.newi < end /\ Ch(format, a1.newi) = "*"
        w      == IF star1 THEN [isnum |-> FALSE, newi |-> a1.newi + 1]
                  ELSE parsenum(format, a1.newi, end, 0, FALSE)
        buf1   == IF star1 THEN buf \o "%!(BADWIDTH)" ELSE buf
        after1 == ~star1 /\ a1.found
        dot    == w.newi + 1 < end /\ Ch(format, w.newi) = "."
        a2     == argNumber(format, w.newi + 1)
        star2  == dot /\ a2.newi < end /\ Ch(format, a2.newi) = "*"
        p      == IF ~dot THEN w
                  ELSE IF star2 THEN [isnum |-> FALSE, newi |-> a2.newi + 1]
                  ELSE parsenum(format, a2.newi, end, 0, FALSE)
        buf2   == IF star2 THEN buf1 \o "%!(BADPREC)" ELSE buf1
        after2 == IF dot THEN ~star2 /\ a2.found ELSE after1
        a3     == IF after2 THEN [newi |-> p.newi, found |-> TRUE, bad |-> FALSE]
                  ELSE argNumber(format, p.newi)
        good   == ~a1.bad /\ ~(dot /\ a2.bad) /\ ~a3.bad
        verb   == Ch(format, a3.newi)
    IN  IF a3.newi >= end THEN buf2 \o "%!(NOVERB)"
        ELSE IF verb = "%" THEN doPrintf(format, a3.newi + 1, buf2 \o "%")
        ELSE IF ~good
        THEN doPrintf(format, a3.newi + 1, buf2 \o "%!" \o verb \o "(BADINDEX)")
        ELSE doPrintf(format, a3.newi + 1, buf2 \o "%!" \o verb \o "(MISSING)")

\* fmt.Errorf(format): the text of the error
Errorf(format) == doPrintf(format, 1, "")

\* the digits without their leading zeros ("" for zero)
RECURSIVE Significant(_)
Significant(digits) ==
  IF Len(digits) > 0 /\ Ch(digits, 1) = "0"
  THEN Significant(SubSeq(digits, 2, Len(digits))) ELSE digits

\* x is greater than y, for two numerals of the same length
RECURSIVE NumeralGreater(_, _)
NumeralGreater(x, y) ==
  /\ Len(x) > 0
  /\ \/ DigitVal(Ch(x, 1)) > DigitVal(Ch(y, 1))
     \/ /\ Ch(x, 1) = Ch(y, 1)
        /\ NumeralGreater(SubSeq(x, 2, Len(x)), SubSeq(y, 2, Len(y)))

\* the greatest int and the magnitude of the least int (int has 64 bits on
\* the platforms Asterisk runs on), as numerals
MaxIntNumeral == "9223372036854775807"
MinIntMagnitude == "9223372036854775808"

\* the greatest uint64, as a numeral
MaxUintNumeral == "18446744073709551615"

\* the number of digits s begins with
RECURSIVE DigitRun(_)
DigitRun(s) ==
  IF Len(s) > 0 /\ Ch(s, 1) \in Digit
  THEN 1 + DigitRun(SubSeq(s, 2, Len(s))) ELSE 0

\* the numeral x is greater than the numeral lim (neither has leading zeros)
NumeralAbove(x, lim) ==
  Len(x) > Len(lim) \/ (Len(x) = Len(lim) /\ NumeralGreater(x, lim))

\* the magnitude does not fit an int
OutOfRange(sig, neg) ==
  NumeralAbove(sig, IF neg THEN MinIntMagnitude ELSE MaxIntNumeral)

\* An int of the program as a value of the model: the integer when it has
\* at most 9 digits, else (the integers of TLC have 32 bits) its decimal
\* numeral, with "-" before it when it is negative.
IntValue(sig, neg) ==
  IF Len(sig) <= 9
  THEN (IF neg THEN 0 - DecVal(sig) ELSE DecVal(sig))
  ELSE (IF neg THEN "-" \o sig ELSE sig)

\* strconv.Atoi: an optional sign, then one or more decimal digits.  The
\* characters are read from the left: a character that is no digit (or no
\* digit at all) is a syntax error, returned with 0; digits that overflow a
\* uint64 before such a character is met are a range error, and so is a
\* number of digits only that does not fit an int: it is returned with the
\* greatest (the least) int.
Atoi(s) ==
  LET signed == Len(s) > 0 /\ Ch(s, 1) \in {"-", "+"}
      neg    == signed /\ Ch(s, 1) = "-"
      digits == IF signed THEN SubSeq(s, 2, Len(s)) ELSE s
      run    == DigitRun(digits)
      sig    == Significant(SubSeq(digits, 1, run))
      range  == IF run = Len(digits)
                THEN OutOfRange(sig, neg)
                ELSE NumeralAbove(sig, MaxUintNumeral)
  IN  IF range
      THEN [val |-> IF neg THEN "-" \o MinIntMagnitude ELSE MaxIntNumeral,
            err |-> "strconv.Atoi: parsing \"" \o s
                      \o "\": value out of range"]
      ELSE IF Len(digits) > 0 /\ run = Len(digits)
      THEN [val |-> IntValue(sig, neg), err |-> "nil"]
      ELSE [val |-> 0,
            err |-> "strconv.Atoi: parsing \"" \o s \o "\": invalid syntax"]

(***************************************************************************)
(* The reply grammar.                                                      *)
(***************************************************************************)
\* the end of the longest run of [[:alnum:]] that starts at position i
RECURSIVE AlnumEnd(_, _)
AlnumEnd(s, i) ==
  IF i <= Len(s) /\ Ch(s, i) \in Alnum THEN AlnumEnd(s, i + 1) ELSE i

NoMatch == <<>>

\* responseRegex.FindStringSubmatch(raw) for
\*   ^([\d]{3})\sresult=(\-?[[:alnum:]]*)(\s.*)?$
\* <<>> when raw does not match, else <<raw, status, token, rest>>.  The
\* token is matched greedily; no shorter token can match, because what
\* follows the token must be empty or start with \s.  The rest is one \s
\* (a newline too) and then characters matched by ".", which are all but
\* the newline.
responseRegex(raw) ==
  IF /\ Len(raw) >= 11
     /\ AllIn(SubSeq(raw, 1, 3), Digit)
     /\ Ch(raw, 4) \in Space
     /\ SubSeq(raw, 5, 11) = "result="
  THEN LET t0  == IF Len(raw) >= 12 /\ Ch(raw, 12) = "-" THEN 13 ELSE 12
           te  == AlnumEnd(raw, t0)
           rst == SubSeq(raw, te, Len(raw))
       IN  IF /\ Len(rst) = 0 \/ Ch(rst, 1) \in Space
              /\ \A i \in 2..Len(rst) : Ch(rst, i) # "\n"
           THEN <<raw, SubSeq(raw, 1, 3), SubSeq(raw, 12, te - 1), rst>>
           ELSE NoMatch
  ELSE NoMatch

(***************************************************************************)
(* Constants and types of the package.                                     *)
(***************************************************************************)
StatusOK == 200

\* a nil error
Nil == "nil"

\* &Response{}
ZeroResponse ==
  [Error |-> Nil, Status |-> 0, Result |-> 0, ResultString |-> "", Value |-> ""]

\* no goroutine holds a.mu
NoCall == 0

\* the lines the peer may send
PeerLines ==
  {"200 result=1", "200 result=on", "510 result=-1 (x)", "banana", "HANGUP", ""}

\* the lines the peer may send in reply to WAIT FOR DIGIT: a digit (the
\* code of its character), no digit, a failure, and two results that are no
\* digit's: the code of a letter above U+00FF, and a number whose low 32
\* bits are the code of a digit
DigitLines ==
  {"200 result=49", "200 result=0", "510 result=-1", "HANGUP", "",
   "200 result=300", "200 result=4294967345"}

\* the sequences of n lines of the set
RECURSIVE LinesOfLen(_, _)
LinesOfLen(n, lines) ==
  IF n = 0 THEN {<<>>}
  ELSE {Append(q, l) : q \in LinesOfLen(n - 1, lines), l \in lines}

\* what one Read of a.r can return when the peer has at most n more lines to
\* send: the lines that have arrived, at least one
Chunks(n, lines) == UNION {LinesOfLen(k, lines) : k \in 1..n}

(***************************************************************************)
(* The handshake: NewWithEAGI (lines 128-149).                             *)
(***************************************************************************)
\* the most lines of a handshake input
MaxHsLines == 3

\* the place of the first ":" of s at or after place i, 0 when there is none
RECURSIVE ColonFrom(_, _)
ColonFrom(s, i) ==
  IF i > Len(s) THEN 0
  ELSE IF Ch(s, i) = ":" THEN i
  ELSE ColonFrom(s, i + 1)

\* strings.SplitN(s, ":", 2): s whole when it holds no ":", else what is
\* before the first ":" and what is after it
SplitN(s) ==
  LET i == ColonFrom(s, 1)
  IN  IF i = 0 THEN <<s>>
      ELSE <<SubSeq(s, 1, i - 1), SubSeq(s, i + 1, Len(s))>>

\* make(map[string]string)
NoVariables == [k \in {} |-> ""]

\* a.Variables[k] = v
SetVariable(m, k, v) == (k :> v) @@ m

\* lines 141-144: the body of the loop on a line that is not empty
HandshakeLine(m, line) ==
  LET terms == SplitN(line)
  IN  IF Len(terms) = 2
      THEN SetVariable(m, TrimSpace(terms[1]), TrimSpace(terms[2]))
      ELSE m

\* lines 136-145: the loop `for s.Scan()` from the i-th of the lines the
\* stream holds, with the map m: it ends at an empty line, or when Scan
\* finds the end of the stream.  scanned is the number of lines Scan
\* returned.
RECURSIVE ScanHandshake(_, _, _)
ScanHandshake(lines, i, m) ==
  IF i > Len(lines) THEN [Variables |-> m, scanned |-> Len(lines)]
  ELSE IF lines[i] = "" THEN [Variables |-> m, scanned |-> i]
  ELSE ScanHandshake(lines, i + 1, HandshakeLine(m, lines[i]))

\* What a peer sends on the input stream for the handshake: lines, after
\* which it closes the stream (closed) or leaves it open and sends no more.
\* The loop of NewWithEAGI ends when there is an empty line or the stream
\* is closed; else Scan blocks for ever in its Read.
HandshakeEnds(in) ==
  \/ \E i \in 1..Len(in.lines) : in.lines[i] = ""
  \/ in.closed

\* The numbers of lines that the bufio.Scanner of line 136 can have read
\* from a.r when the loop ends.  A Read returns what has arrived, one line
\* or more, and Scan reads again only when its buffer holds no whole line:
\* the Read that brings the first empty line can bring any of the lines the
\* peer sent after it.  With no empty line the loop ends at the end of the
\* stream, all lines read.
ScannerTakes(in) ==
  IF \E i \in 1..Len(in.lines) : in.lines[i] = ""
  THEN ScanHandshake(in.lines, 1, NoVariables).scanned .. Len(in.lines)
  ELSE {Len(in.lines)}

\* NewWithEAGI(r, w, eagi) on an input for which it returns, its scanner
\* having read n lines of the stream: the session, with the number of lines
\* Scan returned to the loop (scanned) and the number of lines read from a.r
\* (taken); the scanner is dropped at the return of line 148, and with it
\* the lines it has read and not returned.  (a.conn is not set here.)
NewWithEAGI(in, n) ==
  LET h == ScanHandshake(in.lines, 1, NoVariables)
  IN  [Variables |-> h.Variables, scanned |-> h.scanned, taken |-> n,
       conn |-> FALSE]

\* the session before NewWithEAGI has built it
ZeroSession ==
  [Variables |-> NoVariables, scanned |-> 0, taken |-> 0, conn |-> FALSE]

\* the lines of the handshake inputs: the last is a reply to a first command,
\* sent after the block
HandshakeLines ==
  {"", "a: 1", " a :2:3 ", "b", "b : x ", ":", "200 result=1"}

\* the sequences of n handshake lines
RECURSIVE HandshakeLinesOfLen(_)
HandshakeLinesOfLen(n) ==
  IF n = 0 THEN {<<>>}
  ELSE {Append(q, l) : q \in HandshakeLinesOfLen(n - 1), l \in HandshakeLines}

\* the handshake inputs: at most MaxHsLines lines, the stream closed after
\* them or not
HandshakeInputs ==
  [lines : UNION {HandshakeLinesOfLen(n) : n \in 0..MaxHsLines},
   closed : BOOLEAN]

\* the most connections Listen accepts
MaxConns == 2

\* the connections, numbered in the order in which l.Accept returns them
Conns == 1..MaxConns

(***************************************************************************)
(* State.                                                                  *)
(***************************************************************************)
VARIABLES
  mu,       \* a.mu: the call that holds the mutex, or NoCall
  pc,       \* where each Command call is: "lock", "write", "wait",
            \* "timedout" (at the return of line 281), "done"
  timeout,  \* the timeout argument of each call: 0, or a positive duration (1)
  resp,     \* the Response each call allocated (shared with its reader)
  raw,      \* the variable raw of each call (shared with its reader)
  reader,   \* the reader goroutine of each call: "none", "run" (in
            \* s.Scan()), "store" (in the loop body, on the line raw),
            \* "done"
  todo,     \* the fields of resp that the reader of each call has still to
            \* store for the line it is on, in the order of its stores
  taken,    \* the lines the bufio.Scanner of each call has read from a.r
  pos,      \* how many of them its Scan has returned
  waitC,    \* the number of values in the channel waitC of each call (0 or 1)
  timer,    \* the timer of time.After(timeout) while Command waits in the
            \* select: "off", "armed", "fired"
  out,      \* the output stream a.w: the commands written, in order
  eof,      \* a Read of a.r has returned the end of the stream
  nread,    \* the number of lines read from a.r so far
  ret,      \* the Response as it was when Command returned it
  wfd,      \* the call of WaitForDigit that makes each Command call: "none"
            \* (the call is made by another caller), "called" (it is at or
            \* in its call of Command, line 495), "cleared" (after line
            \* 496), "returned"
  hsIn,     \* NewWithEAGI called on its own: what its input stream delivers
  hsPc,     \* ... where the call is: "call", "returned"
  hsA,      \* ... the session it returned
  lpc,      \* Listen: "none" (not called), "accept" (in l.Accept), "newconn"
            \* (in NewConn), "returned" (Accept failed, Listen returned)
  accepted, \* the number of connections l.Accept has returned
  peer,     \* what the peer of each connection sends for the handshake
  sess,     \* each connection: "none", "newconn" (NewConn runs on it),
            \* "handler" (its handler runs), "returned" (its handler returned)
  agi,      \* the session NewConn built on each connection
  sock,     \* the net.Conn of each connection: "none", "open", "closed"
  hcmd,     \* the Command call of each handler: "idle" (none), "write",
            \* "wait"
  amu       \* a.mu of each session: held or not

\* the state of the Command calls on one session
cvars == <<mu, pc, timeout, resp, raw, reader, todo, taken, pos, waitC,
           timer, out, eof, nread, ret>>

\* the state of a call of NewWithEAGI
hvars == <<hsIn, hsPc, hsA>>

\* the state of Listen, its connections and their handlers
lvars == <<lpc, accepted, peer, sess, agi, sock, hcmd, amu>>

\* the state of the calls of WaitForDigit
dvars == <<wfd>>

vars == <<cvars, hvars, lvars, dvars>>

\* toMSec(timeout), the argument of WAIT FOR DIGIT: the milliseconds the
\* peer is to wait, as text.  (toMSec is defined outside agi.go; the token
\* plays no part in what Command does with the reply.)
DigitTimeout == "1000"

\* cmd ...string of each call
CmdTokens(c) ==
  CASE wfd[c] # "none" -> <<"WAIT FOR DIGIT", DigitTimeout>>
    [] c = 1 -> <<"ANSWER">>
    [] c = 2 -> <<"GET VARIABLE", "X">>
    [] OTHER -> <<"HANGUP">>

\* strings.Join(cmd, " ")
RECURSIVE Join(_, _)
Join(toks, sep) ==
  IF Len(toks) = 0 THEN ""
  ELSE IF Len(toks) = 1 THEN toks[1]
  ELSE toks[1] \o sep \o Join(Tail(toks), sep)

\* the bytes Command hands to a.w.Write
CmdBytes(c) == Join(CmdTokens(c), " ") \o "\n"

\* the lines the peer may send to the calls of the run
Lines == IF \A c \in Calls : wfd[c] = "none" THEN PeerLines ELSE DigitLines


\* the Command calls on a session that was built: each call is about to
\* take the lock
CommandInit ==
  /\ mu = NoCall
  /\ pc = [c \in Calls |-> "lock"]
  /\ timeout \in [Calls -> {0, 1}]
  /\ resp = [c \in Calls |-> ZeroResponse]
  /\ raw = [c \in Calls |-> ""]
  /\ reader = [c \in Calls |-> "none"]
  /\ todo = [c \in Calls |-> <<>>]
  /\ taken = [c \in Calls |-> <<>>]
  /\ pos = [c \in Calls |-> 0]
  /\ waitC = [c \in Calls |-> 0]
  /\ timer = [c \in Calls |-> "off"]
  /\ out = <<>>
  /\ eof = FALSE
  /\ nread = 0
  /\ ret = [c \in Calls |-> ZeroResponse]

\* a peer that sends nothing and leaves the stream open
SilentPeer == [lines |-> <<>>, closed |-> FALSE]

\* no call of NewWithEAGI is followed
NoHandshake ==
  /\ hsIn = SilentPeer
  /\ hsPc = "none"
  /\ hsA = ZeroSession

\* Listen is not called: there is no connection
NoListen ==
  /\ lpc = "none"
  /\ accepted = 0
  /\ peer = <<>>
  /\ sess = <<>>
  /\ agi = <<>>
  /\ sock = <<>>
  /\ hcmd = <<>>
  /\ amu = <<>>

\* Command calls on one session (built by New on a pair of streams)
\* no Command call is made by WaitForDigit
NoDigit == wfd = [c \in Calls |-> "none"]

Init ==
  /\ CommandInit
  /\ NoDigit
  /\ NoHandshake
  /\ NoListen

(***************************************************************************)
(* The reader goroutine of Command (lines 229-274).                        *)
(***************************************************************************)
\* strings.HasPrefix(raw, "HANGUP")
IsHangup(line) == HasPrefix(line, "HANGUP")

\* lines 247-269, the fields of the Response that the loop body stores for
\* a line it parses, in the order of the stores: Error alone when the line
\* does not match (line 249), else Status (254), ResultString (261), Result
\* (262), Error when the result is no int (264) and Value (269).
\* (pieces[1] is three digits: the Atoi of line 254 does not fail.)
Stores(line) ==
  LET pieces == responseRegex(line)
  IN  IF pieces = NoMatch THEN <<"Error">>
      ELSE <<"Status", "ResultString", "Result">>
             \o (IF Atoi(pieces[3]).err # Nil THEN <<"Error">> ELSE <<>>)
             \o <<"Value">>

\* the value that the loop body stores into the field of the Response
Stored(line, field) ==
  LET pieces == responseRegex(line)
      wrappedVal == TrimSpace(pieces[4])
  IN  CASE field = "Error" ->
             IF pieces = NoMatch
             THEN "failed to parse result: " \o line
             ELSE "failed to parse result-code as an integer: "
                    \o Atoi(pieces[3]).err \o ", raw: " \o line
        [] field = "Status" -> Atoi(pieces[2]).val
        [] field = "ResultString" -> pieces[3]
        [] field = "Result" -> Atoi(pieces[3]).val
        [] field = "Value" -> TrimSuffix(TrimPrefix(wrappedVal, "("), ")")

\* the Response r after the stores of the set fields for the line
StoreFields(r, line, fields) ==
  [f \in DOMAIN r |-> IF f \in fields THEN Stored(line, f) ELSE r[f]]

\* lines 247-269, the Response r after the loop body has parsed the line
ParseReply(r, line) ==
  StoreFields(r, line, {Stores(line)[i] : i \in 1..Len(Stores(line))})

\* a bug: a HANGUP line ends the loop (break for continue)
LoopBody_HangupEndsLoop(line) ==
  IF line = "" \/ IsHangup(line) THEN [stores |-> <<>>, cont |-> FALSE]
  ELSE [stores |-> Stores(line), cont |-> FALSE]

\* one turn of the loop `for s.Scan()` on the line Scan returned: the
\* fields it stores, and whether the loop goes on
LoopBody(line) ==
  IF line = "" THEN [stores |-> <<>>, cont |-> FALSE]
  ELSE IF IsHangup(line) THEN [stores |-> <<>>, cont |-> TRUE]
  ELSE [stores |-> Stores(line), cont |-> FALSE]

\* s.Scan() returned the line `line`, the scanner now holding the lines tk
\* of which n were returned, and line 236 stored it in raw; the loop goes on
\* to the next Scan, or has fields of resp to store, or ends at once, and
\* then the deferred send puts "ok" into waitC (it has room for one value)
ReaderOnLine(c, line, tk, n) ==
  LET b == LoopBody(line)
      ends == ~b.cont /\ b.stores = <<>>
  IN  /\ taken' = [taken EXCEPT ![c] = tk]
      /\ pos' = [pos EXCEPT ![c] = n]
      /\ raw' = [raw EXCEPT ![c] = line]
      /\ todo' = [todo EXCEPT ![c] = b.stores]
      /\ reader' = [reader EXCEPT ![c] = IF b.cont THEN "run"
                                         ELSE IF ends THEN "done"
                                         ELSE "store"]
      /\ waitC' = [waitC EXCEPT ![c] = IF ends THEN 1 ELSE 0]

\* s.Scan() returns the next line that the scanner of call c holds in its
\* buffer
ReaderBuffered(c) ==
  /\ reader[c] = "run"
  /\ pos[c] < Len(taken[c])
  /\ ReaderOnLine(c, taken[c][pos[c] + 1], taken[c], pos[c] + 1)
  /\ UNCHANGED <<mu, pc, timeout, resp, timer, out, eof, nread, ret>>
  /\ UNCHANGED <<hvars, lvars, dvars>>

\* s.Scan() finds the buffer of the scanner empty and reads a.r, which hands
\* over the lines that have arrived: Scan returns the first, the later ones
\* stay in the buffer of this scanner.  (While nothing has arrived and the
\* stream is open the reader is blocked in Read: it takes no step.)
ReaderRead(c) ==
  /\ reader[c] = "run"
  /\ pos[c] = Len(taken[c])
  /\ ~eof
  /\ \E chunk \in Chunks(MaxLines - nread, Lines) :
       /\ ReaderOnLine(c, Head(chunk), taken[c] \o chunk, pos[c] + 1)
       /\ nread' = nread + Len(chunk)
  /\ UNCHANGED <<mu, pc, timeout, resp, timer, out, eof, ret>>
  /\ UNCHANGED <<hvars, lvars, dvars>>

\* lines 249, 254, 261, 262, 264, 269: the reader stores the next field of
\* resp.  Nothing orders these stores with the store and the return of
\* lines 280-281, nor with what the caller reads after that return: a
\* Command that returns on its timer returns the Response with the fields
\* stored so far, and the later stores change it in the hands of the
\* caller.  The stores are taken in the order of the program, each field
\* whole.  After the last one the loop ends (lines 250, 272) and the
\* deferred send puts "ok" into waitC.
ReaderStore(c) ==
  /\ reader[c] = "store"
  /\ resp' = [resp EXCEPT ![c] = StoreFields(resp[c], raw[c], {Head(todo[c])})]
  /\ todo' = [todo EXCEPT ![c] = Tail(todo[c])]
  /\ reader' = [reader EXCEPT ![c] = IF Len(todo[c]) = 1 THEN "done"
                                     ELSE "store"]
  /\ waitC' = [waitC EXCEPT ![c] = IF Len(todo[c]) = 1 THEN 1 ELSE 0]
  /\ UNCHANGED <<mu, pc, timeout, raw, taken, pos, timer, out, eof, nread,
                 ret>>
  /\ UNCHANGED <<hvars, lvars, dvars>>

\* s.Scan() finds the buffer empty and a.r at the end of the stream (the peer
\* closed it): Scan returns false, the loop ends and the deferred send runs
ReaderEOF(c) ==
  /\ reader[c] = "run"
  /\ pos[c] = Len(taken[c])
  /\ eof' = TRUE
  /\ reader' = [reader EXCEPT ![c] = "done"]
  /\ waitC' = [waitC EXCEPT ![c] = 1]
  /\ UNCHANGED <<mu, pc, timeout, resp, raw, taken, pos, timer, out, nread, ret>>
  /\ UNCHANGED <<todo, hvars, lvars, dvars>>

(***************************************************************************)
(* Command (lines 214-292).                                                *)
(***************************************************************************)
\* a bug: Command does not take the lock
MutexFree_NoExclusion == TRUE

\* a.mu.Lock() returns only when no goroutine holds the mutex
MutexFree == mu = NoCall

\* lines 215-219: the call allocated its Response and takes the lock.  The
\* calls are numbered in the order in which they take it.
Lock(c) ==
  /\ pc[c] = "lock"
  /\ \A d \in Calls : d < c => pc[d] # "lock"
  /\ MutexFree
  /\ mu' = c
  /\ pc' = [pc EXCEPT ![c] = "write"]
  /\ UNCHANGED <<timeout, resp, raw, reader, taken, pos, waitC, timer, out,
                 eof, nread, ret>>
  /\ UNCHANGED <<todo, hvars, lvars, dvars>>

\* the error of a failed a.w.Write
WriteErr == "broken pipe"

\* a bug: the return after the failed Write is missing, so that Command goes
\* on to start the reader and to wait for a reply
WriteError_NoReturn(c) ==
  /\ pc[c] = "write"
  /\ resp' = [resp EXCEPT ![c].Error = "failed to send command: " \o WriteErr]
  /\ reader' = [reader EXCEPT ![c] = "run"]
  /\ timer' = [timer EXCEPT ![c] = IF timeout[c] > 0 THEN "armed" ELSE "off"]
  /\ pc' = [pc EXCEPT ![c] = "wait"]
  /\ UNCHANGED <<mu, timeout, raw, taken, pos, waitC, out, eof, nread, ret>>
  /\ UNCHANGED <<todo, hvars, lvars, dvars>>

\* lines 222-226: a.w.Write failed; Command sets Error and returns, the
\* deferred Unlock runs.  (What a failed Write left on the output stream is
\* not modelled: out holds the commands written whole.)
WriteError(c) ==
  /\ pc[c] = "write"
  /\ out' = out
  /\ resp' = [resp EXCEPT ![c].Error = "failed to send command: " \o WriteErr]
  /\ ret' = [ret EXCEPT ![c] = resp'[c]]
  /\ mu' = NoCall
  /\ pc' = [pc EXCEPT ![c] = "done"]
  /\ UNCHANGED <<timeout, raw, reader, taken, pos, waitC, timer, eof, nread>>
  /\ UNCHANGED <<todo, hvars, lvars, dvars>>

\* a bug: no timer is started for the wait
WriteOK_NoTimer(c) ==
  /\ pc[c] = "write"
  /\ out' = Append(out, [call |-> c, bytes |-> CmdBytes(c)])
  /\ reader' = [reader EXCEPT ![c] = "run"]
  /\ pc' = [pc EXCEPT ![c] = "wait"]
  /\ UNCHANGED <<mu, timeout, resp, raw, taken, pos, waitC, timer, eof, nread,
                 ret>>
  /\ UNCHANGED <<todo, hvars, lvars, dvars>>

\* lines 222-285: a.w.Write wrote the whole command; the reader goroutine is
\* started and Command waits in the select (with a timer when timeout > 0)
WriteOK(c) ==
  /\ pc[c] = "write"
  /\ out' = Append(out, [call |-> c, bytes |-> CmdBytes(c)])
  /\ reader' = [reader EXCEPT ![c] = "run"]
  /\ timer' = [timer EXCEPT ![c] = IF timeout[c] > 0 THEN "armed" ELSE "off"]
  /\ pc' = [pc EXCEPT ![c] = "wait"]
  /\ UNCHANGED <<mu, timeout, resp, raw, taken, pos, waitC, eof, nread, ret>>
  /\ UNCHANGED <<todo, hvars, lvars, dvars>>

\* the timer of time.After(timeout) fires
TimerFire(c) ==
  /\ pc[c] = "wait"
  /\ timer[c] = "armed"
  /\ timer' = [timer EXCEPT ![c] = "fired"]
  /\ UNCHANGED <<mu, pc, timeout, resp, raw, reader, taken, pos, waitC, out,
                 eof, nread, ret>>
  /\ UNCHANGED <<todo, hvars, lvars, dvars>>

\* a bug: the timer's case of the select is ready at once
TimerFired_AtOnce(c) == TRUE

\* the channel of time.After(timeout) has a value
TimerFired(c) == timer[c] = "fired"

\* a bug: no error is set for a status other than 200
NonOK_NoError(r, rawline) == r

\* lines 287-290: fmt.Errorf takes the text with the raw line in it as its
\* format
NonOK(r, rawline) ==
  IF r.Status # StatusOK /\ r.Error = Nil
  THEN [r EXCEPT !.Error = Errorf("Non-200 status code. " \o rawline)]
  ELSE r

\* a bug: Command returns what the reader left, without the check of the
\* status
RecvWaitC_NoStatusCheck(c) ==
  /\ pc[c] = "wait"
  /\ waitC[c] = 1
  /\ waitC' = [waitC EXCEPT ![c] = 0]
  /\ ret' = [ret EXCEPT ![c] = resp[c]]
  /\ mu' = NoCall
  /\ pc' = [pc EXCEPT ![c] = "done"]
  /\ timer' = [timer EXCEPT ![c] = "off"]
  /\ UNCHANGED <<timeout, resp, raw, reader, taken, pos, out, eof, nread>>
  /\ UNCHANGED <<todo, hvars, lvars, dvars>>

\* lines 278, 284, 287-291: Command received from waitC; it sets the non-200
\* error and returns, the deferred Unlock runs
RecvWaitC(c) ==
  /\ pc[c] = "wait"
  /\ waitC[c] = 1
  /\ waitC' = [waitC EXCEPT ![c] = 0]
  /\ resp' = [resp EXCEPT ![c] = NonOK(resp[c], raw[c])]
  /\ ret' = [ret EXCEPT ![c] = resp'[c]]
  /\ mu' = NoCall
  /\ pc' = [pc EXCEPT ![c] = "done"]
  /\ timer' = [timer EXCEPT ![c] = "off"]
  /\ UNCHANGED <<timeout, raw, reader, taken, pos, out, eof, nread>>
  /\ UNCHANGED <<todo, hvars, lvars, dvars>>

\* a bug: the select with the timer is used for timeout zero too, where the
\* channel of time.After(0) has its value at once
Timeout_ZeroTimeoutToo(c) ==
  /\ pc[c] = "wait"
  /\ timeout[c] > 0 => TimerFired(c)
  /\ resp' = [resp EXCEPT ![c].Error = "timeout"]
  /\ pc' = [pc EXCEPT ![c] = "timedout"]
  /\ timer' = [timer EXCEPT ![c] = "off"]
  /\ UNCHANGED <<mu, timeout, raw, reader, taken, pos, waitC, out, eof, nread,
                 ret>>
  /\ UNCHANGED <<todo, hvars, lvars, dvars>>

\* lines 279-280: the select took the timer's case and Command stores the
\* timeout error; the reader is left as it is (running, when it has not
\* finished)
Timeout(c) ==
  /\ pc[c] = "wait"
  /\ timeout[c] > 0
  /\ TimerFired(c)
  /\ resp' = [resp EXCEPT ![c].Error = "timeout"]
  /\ pc' = [pc EXCEPT ![c] = "timedout"]
  /\ timer' = [timer EXCEPT ![c] = "off"]
  /\ UNCHANGED <<mu, timeout, raw, reader, taken, pos, waitC, out, eof, nread,
                 ret>>
  /\ UNCHANGED <<todo, hvars, lvars, dvars>>

\* line 281: Command returns after the timeout, with the Response as the
\* reader has left it by now, and the deferred Unlock runs
TimeoutReturns(c) ==
  /\ pc[c] = "timedout"
  /\ ret' = [ret EXCEPT ![c] = resp[c]]
  /\ mu' = NoCall
  /\ pc' = [pc EXCEPT ![c] = "done"]
  /\ UNCHANGED <<timeout, resp, raw, reader, taken, pos, waitC, timer, out,
                 eof, nread>>
  /\ UNCHANGED <<todo, hvars, lvars, dvars>>

Next ==
  \/ \E c \in Calls : Lock(c)
  \/ \E c \in Calls : WriteError(c)
  \/ \E c \in Calls : WriteOK(c)
  \/ \E c \in Calls : ReaderBuffered(c)
  \/ \E c \in Calls : ReaderRead(c)
  \/ \E c \in Calls : ReaderStore(c)
  \/ \E c \in Calls : ReaderEOF(c)
  \/ \E c \in Calls : TimerFire(c)
  \/ \E c \in Calls : RecvWaitC(c)
  \/ \E c \in Calls : Timeout(c)
  \/ \E c \in Calls : TimeoutReturns(c)

Spec == Init /\ [][Next]_vars

\* The runtime fires every timer and the scheduler runs every goroutine that
\* can run: an armed timer fires, and a select with a ready case takes one.
\* (Only the call that holds the lock waits in the select.)  Nothing is
\* assumed of the peer: no reader is ever bound to read a line.
Fairness ==
  /\ WF_vars(\E c \in Calls : TimerFire(c))
  /\ WF_vars(\E c \in Calls : RecvWaitC(c) \/ Timeout(c) \/ TimeoutReturns(c))

LiveSpec == Spec /\ Fairness

\* A fair lock and writes that complete: a call that waits in a.mu.Lock()
\* is given the mutex when it is free (sync.Mutex hands the mutex to the
\* longest waiter once one has waited 1ms), and a.w.Write returns.
QueueFairness ==
  /\ WF_vars(\E c \in Calls : Lock(c))
  /\ WF_vars(\E c \in Calls : WriteOK(c))

QueueSpec == Spec /\ Fairness /\ QueueFairness

(***************************************************************************)
(* WaitForDigit (lines 494-501): it calls Command with timeout 0 and then  *)
(* stores into the Response that Command returned.                         *)
(***************************************************************************)
\* the decimal numeral of an int of the program, from its value in the
\* model (an integer, or a numeral already)
Numeral(n) ==
  LET t == ToString(n)
  IN  IF Ch(t, 1) = "\"" THEN SubSeq(t, 2, Len(t) - 1) ELSE t

\* the low 32 bits of the number of the digits, as two halves of 16 bits
RECURSIVE Low32(_, _, _)
Low32(digits, hi, lo) ==
  IF Len(digits) = 0 THEN [hi |-> hi, lo |-> lo]
  ELSE LET l == lo * 10 + DigitVal(Ch(digits, 1))
       IN  Low32(SubSeq(digits, 2, Len(digits)),
                 (hi * 10 + l \div 65536) % 65536, l % 65536)

\* rune(resp.Result): the conversion of the int to int32 keeps its low 32
\* bits, in two's complement
Rune(n) ==
  LET num == Numeral(n)
      neg == Ch(num, 1) = "-"
      m   == Low32(IF neg THEN SubSeq(num, 2, Len(num)) ELSE num, 0, 0)
      w   == IF ~neg THEN m
             ELSE IF m.lo = 0 THEN [hi |-> (65536 - m.hi) % 65536, lo |-> 0]
             ELSE [hi |-> 65535 - m.hi, lo |-> 65536 - m.lo]
  IN  IF w.hi >= 32768 THEN (w.hi - 65536) * 65536 + w.lo
      ELSE w.hi * 65536 + w.lo

\* the ranges of the runes that strconv.IsPrint takes as printable: the
\* letters, marks, numbers, punctuation and symbols of Unicode 15.0, and the
\* space
PrintRanges ==
  <<<<32, 126>>, <<161, 172>>, <<174, 887>>, <<890, 895>>, <<900, 906>>,
    <<908, 908>>, <<910, 929>>, <<931, 1327>>, <<1329, 1366>>,
    <<1369, 1418>>, <<1421, 1423>>, <<1425, 1479>>, <<1488, 1514>>,
    <<1519, 1524>>, <<1542, 1563>>, <<1565, 1756>>, <<1758, 1805>>,
    <<1808, 1866>>, <<1869, 1969>>, <<1984, 2042>>, <<2045, 2093>>,
    <<2096, 2110>>, <<2112, 2139>>, <<2142, 2142>>, <<2144, 2154>>,
    <<2160, 2190>>, <<2200, 2273>>, <<2275, 2435>>, <<2437, 2444>>,
    <<2447, 2448>>, <<2451, 2472>>, <<2474, 2480>>, <<2482, 2482>>,
    <<2486, 2489>>, <<2492, 2500>>, <<2503, 2504>>, <<2507, 2510>>,
    <<2519, 2519>>, <<2524, 2525>>, <<2527, 2531>>, <<2534, 2558>>,
    <<2561, 2563>>, <<2565, 2570>>, <<2575, 2576>>, <<2579, 2600>>,
    <<2602, 2608>>, <<2610, 2611>>, <<2613, 2614>>, <<2616, 2617>>,
    <<2620, 2620>>, <<2622, 2626>>, <<2631, 2632>>, <<2635, 2637>>,
    <<2641, 2641>>, <<2649, 2652>>, <<2654, 2654>>, <<2662, 2678>>,
    <<2689, 2691>>, <<2693, 2701>>, <<2703, 2705>>, <<2707, 2728>>,
    <<2730, 2736>>, <<2738, 2739>>, <<2741, 2745>>, <<2748, 2757>>,
    <<2759, 2761>>, <<2763, 2765>>, <<2768, 2768>>, <<2784, 2787>>,
    <<2790, 2801>>, <<2809, 2815>>, <<2817, 2819>>, <<2821, 2828>>,
    <<2831, 2832>>, <<2835, 2856>>, <<2858, 2864>>, <<2866, 2867>>,
    <<2869, 2873>>, <<2876, 2884>>, <<2887, 2888>>, <<2891, 2893>>,
    <<2901, 2903>>, <<2908, 2909>>, <<2911, 2915>>, <<2918, 2935>>,
    <<2946, 2947>>, <<2949, 2954>>, <<2958, 2960>>, <<2962, 2965>>,
    <<2969, 2970>>, <<2972, 2972>>, <<2974, 2975>>, <<2979, 2980>>,
    <<2984, 2986>>, <<2990, 3001>>, <<3006, 3010>>, <<3014, 3016>>,
    <<3018, 3021>>, <<3024, 3024>>, <<3031, 3031>>, <<3046, 3066>>,
    <<3072, 3084>>, <<3086, 3088>>, <<3090, 3112>>, <<3114, 3129>>,
    <<3132, 3140>>, <<3142, 3144>>, <<3146, 3149>>, <<3157, 3158>>,
    <<3160, 3162>>, <<3165, 3165>>, <<3168, 3171>>, <<3174, 3183>>,
    <<3191, 3212>>, <<3214, 3216>>, <<3218, 3240>>, <<3242, 3251>>,
    <<3253, 3257>>, <<3260, 3268>>, <<3270, 3272>>, <<3274, 3277>>,
    <<3285, 3286>>, <<3293, 3294>>, <<3296, 3299>>, <<3302, 3311>>,
    <<3313, 3315>>, <<3328, 3340>>, <<3342, 3344>>, <<3346, 3396>>,
    <<3398, 3400>>, <<3402, 3407>>, <<3412, 3427>>, <<3430, 3455>>,
    <<3457, 3459>>, <<3461, 3478>>, <<3482, 3505>>, <<3507, 3515>>,
    <<3517, 3517>>, <<3520, 3526>>, <<3530, 3530>>, <<3535, 3540>>,
    <<3542, 3542>>, <<3544, 3551>>, <<3558, 3567>>, <<3570, 3572>>,
    <<3585, 3642>>, <<3647, 3675>>, <<3713, 3714>>, <<3716, 3716>>,
    <<3718, 3722>>, <<3724, 3747>>, <<3749, 3749>>, <<3751, 3773>>,
    <<3776, 3780>>, <<3782, 3782>>, <<3784, 3790>>, <<3792, 3801>>,
    <<3804, 3807>>, <<3840, 3911>>, <<3913, 3948>>, <<3953, 3991>>,
    <<3993, 4028>>, <<4030, 4044>>, <<4046, 4058>>, <<4096, 4293>>,
    <<4295, 4295>>, <<4301, 4301>>, <<4304, 4680>>, <<4682, 4685>>,
    <<4688, 4694>>, <<4696, 4696>>, <<4698, 4701>>, <<4704, 4744>>,
    <<4746, 4749>>, <<4752, 4784>>, <<4786, 4789>>, <<4792, 4798>>,
    <<4800, 4800>>, <<4802, 4805>>, <<4808, 4822>>, <<4824, 4880>>,
    <<4882, 4885>>, <<4888, 4954>>, <<4957, 4988>>, <<4992, 5017>>,
    <<5024, 5109>>, <<5112, 5117>>, <<5120, 5759>>, <<5761, 5788>>,
    <<5792, 5880>>, <<5888, 5909>>, <<5919, 5942>>, <<5952, 5971>>,
    <<5984, 5996>>, <<5998, 6000>>, <<6002, 6003>>, <<6016, 6109>>,
    <<6112, 6121>>, <<6128, 6137>>, <<6144, 6157>>, <<6159, 6169>>,
    <<6176, 6264>>, <<6272, 6314>>, <<6320, 6389>>, <<6400, 6430>>,
    <<6432, 6443>>, <<6448, 6459>>, <<6464, 6464>>, <<6468, 6509>>,
    <<6512, 6516>>, <<6528, 6571>>, <<6576, 6601>>, <<6608, 6618>>,
    <<6622, 6683>>, <<6686, 6750>>, <<6752, 6780>>, <<6783, 6793>>,
    <<6800, 6809>>, <<6816, 6829>>, <<6832, 6862>>, <<6912, 6988>>,
    <<6992, 7038>>, <<7040, 7155>>, <<7164, 7223>>, <<7227, 7241>>,
    <<7245, 7304>>, <<7312, 7354>>, <<7357, 7367>>, <<7376, 7418>>,
    <<7424, 7957>>, <<7960, 7965>>, <<7968, 8005>>, <<8008, 8013>>,
    <<8016, 8023>>, <<8025, 8025>>, <<8027, 8027>>, <<8029, 8029>>,
    <<8031, 8061>>, <<8064, 8116>>, <<8118, 8132>>, <<8134, 8147>>,
    <<8150, 8155>>, <<8157, 8175>>, <<8178, 8180>>, <<8182, 8190>>,
    <<8208, 8231>>, <<8240, 8286>>, <<8304, 8305>>, <<8308, 8334>>,
    <<8336, 8348>>, <<8352, 8384>>, <<8400, 8432>>, <<8448, 8587>>,
    <<8592, 9254>>, <<9280, 9290>>, <<9312, 11123>>, <<11126, 11157>>,
    <<11159, 11507>>, <<11513, 11557>>, <<11559, 11559>>, <<11565, 11565>>,
    <<11568, 11623>>, <<11631, 11632>>, <<11647, 11670>>, <<11680, 11686>>,
    <<11688, 11694>>, <<11696, 11702>>, <<11704, 11710>>, <<11712, 11718>>,
    <<11720, 11726>>, <<11728, 11734>>, <<11736, 11742>>, <<11744, 11869>>,
    <<11904, 11929>>, <<11931, 12019>>, <<12032, 12245>>, <<12272, 12283>>,
    <<12289, 12351>>, <<12353, 12438>>, <<12441, 12543>>, <<12549, 12591>>,
    <<12593, 12686>>, <<12688, 12771>>, <<12784, 12830>>, <<12832, 42124>>,
    <<42128, 42182>>, <<42192, 42539>>, <<42560, 42743>>, <<42752, 42954>>,
    <<42960, 42961>>, <<42963, 42963>>, <<42965, 42969>>, <<42994, 43052>>,
    <<43056, 43065>>, <<43072, 43127>>, <<43136, 43205>>, <<43214, 43225>>,
    <<43232, 43347>>, <<43359, 43388>>, <<43392, 43469>>, <<43471, 43481>>,
    <<43486, 43518>>, <<43520, 43574>>, <<43584, 43597>>, <<43600, 43609>>,
    <<43612, 43714>>, <<43739, 43766>>, <<43777, 43782>>, <<43785, 43790>>,
    <<43793, 43798>>, <<43808, 43814>>, <<43816, 43822>>, <<43824, 43883>>,
    <<43888, 44013>>, <<44016, 44025>>, <<44032, 55203>>, <<55216, 55238>>,
    <<55243, 55291>>, <<63744, 64109>>, <<64112, 64217>>, <<64256, 64262>>,
    <<64275, 64279>>, <<64285, 64310>>, <<64312, 64316>>, <<64318, 64318>>,
    <<64320, 64321>>, <<64323, 64324>>, <<64326, 64450>>, <<64467, 64911>>,
    <<64914, 64967>>, <<64975, 64975>>, <<65008, 65049>>, <<65056, 65106>>,
    <<65108, 65126>>, <<65128, 65131>>, <<65136, 65140>>, <<65142, 65276>>,
    <<65281, 65470>>, <<65474, 65479>>, <<65482, 65487>>, <<65490, 65495>>,
    <<65498, 65500>>, <<65504, 65510>>, <<65512, 65518>>, <<65532, 65533>>,
    <<65536, 65547>>, <<65549, 65574>>, <<65576, 65594>>, <<65596, 65597>>,
    <<65599, 65613>>, <<65616, 65629>>, <<65664, 65786>>, <<65792, 65794>>,
    <<65799, 65843>>, <<65847, 65934>>, <<65936, 65948>>, <<65952, 65952>>,
    <<66000, 66045>>, <<66176, 66204>>, <<66208, 66256>>, <<66272, 66299>>,
    <<66304, 66339>>, <<66349, 66378>>, <<66384, 66426>>, <<66432, 66461>>,
    <<66463, 66499>>, <<66504, 66517>>, <<66560, 66717>>, <<66720, 66729>>,
    <<66736, 66771>>, <<66776, 66811>>, <<66816, 66855>>, <<66864, 66915>>,
    <<66927, 66938>>, <<66940, 66954>>, <<66956, 66962>>, <<66964, 66965>>,
    <<66967, 66977>>, <<66979, 66993>>, <<66995, 67001>>, <<67003, 67004>>,
    <<67072, 67382>>, <<67392, 67413>>, <<67424, 67431>>, <<67456, 67461>>,
    <<67463, 67504>>, <<67506, 67514>>, <<67584, 67589>>, <<67592, 67592>>,
    <<67594, 67637>>, <<67639, 67640>>, <<67644, 67644>>, <<67647, 67669>>,
    <<67671, 67742>>, <<67751, 67759>>, <<67808, 67826>>, <<67828, 67829>>,
    <<67835, 67867>>, <<67871, 67897>>, <<67903, 67903>>, <<67968, 68023>>,
    <<68028, 68047>>, <<68050, 68099>>, <<68101, 68102>>, <<68108, 68115>>,
    <<68117, 68119>>, <<68121, 68149>>, <<68152, 68154>>, <<68159, 68168>>,
    <<68176, 68184>>, <<68192, 68255>>, <<68288, 68326>>, <<68331, 68342>>,
    <<68352, 68405>>, <<68409, 68437>>, <<68440, 68466>>, <<68472, 68497>>,
    <<68505, 68508>>, <<68521, 68527>>, <<68608, 68680>>, <<68736, 68786>>,
    <<68800, 68850>>, <<68858, 68903>>, <<68912, 68921>>, <<69216, 69246>>,
    <<69248, 69289>>, <<69291, 69293>>, <<69296, 69297>>, <<69373, 69415>>,
    <<69424, 69465>>, <<69488, 69513>>, <<69552, 69579>>, <<69600, 69622>>,
    <<69632, 69709>>, <<69714, 69749>>, <<69759, 69820>>, <<69822, 69826>>,
    <<69840, 69864>>, <<69872, 69881>>, <<69888, 69940>>, <<69942, 69959>>,
    <<69968, 70006>>, <<70016, 70111>>, <<70113, 70132>>, <<70144, 70161>>,
    <<70163, 70209>>, <<70272, 70278>>, <<70280, 70280>>,
    <<70282, 70285>>, <<70287, 70301>>, <<70303, 70313>>, <<70320, 70378>>,
    <<70384, 70393>>, <<70400, 70403>>, <<70405, 70412>>, <<70415, 70416>>,
    <<70419, 70440>>, <<70442, 70448>>, <<70450, 70451>>, <<70453, 70457>>,
    <<70459, 70468>>, <<70471, 70472>>, <<70475, 70477>>, <<70480, 70480>>,
    <<70487, 70487>>, <<70493, 70499>>, <<70502, 70508>>, <<70512, 70516>>,
    <<70656, 70747>>, <<70749, 70753>>, <<70784, 70855>>, <<70864, 70873>>,
    <<71040, 71093>>, <<71096, 71133>>, <<71168, 71236>>, <<71248, 71257>>,
    <<71264, 71276>>, <<71296, 71353>>, <<71360, 71369>>, <<71424, 71450>>,
    <<71453, 71467>>, <<71472, 71494>>, <<71680, 71739>>, <<71840, 71922>>,
    <<71935, 71942>>, <<71945, 71945>>, <<71948, 71955>>, <<71957, 71958>>,
    <<71960, 71989>>, <<71991, 71992>>, <<71995, 72006>>, <<72016, 72025>>,
    <<72096, 72103>>, <<72106, 72151>>, <<72154, 72164>>, <<72192, 72263>>,
    <<72272, 72354>>, <<72368, 72440>>, <<72448, 72457>>, <<72704, 72712>>,
    <<72714, 72758>>, <<72760, 72773>>, <<72784, 72812>>, <<72816, 72847>>,
    <<72850, 72871>>, <<72873, 72886>>, <<72960, 72966>>, <<72968, 72969>>,
    <<72971, 73014>>, <<73018, 73018>>, <<73020, 73021>>, <<73023, 73031>>,
    <<73040, 73049>>, <<73056, 73061>>, <<73063, 73064>>, <<73066, 73102>>,
    <<73104, 73105>>, <<73107, 73112>>, <<73120, 73129>>, <<73440, 73464>>,
    <<73472, 73488>>, <<73490, 73530>>, <<73534, 73561>>, <<73648, 73648>>,
    <<73664, 73713>>, <<73727, 74649>>, <<74752, 74862>>, <<74864, 74868>>,
    <<74880, 75075>>, <<77712, 77810>>, <<77824, 78895>>, <<78912, 78933>>,
    <<82944, 83526>>, <<92160, 92728>>, <<92736, 92766>>, <<92768, 92777>>,
    <<92782, 92862>>, <<92864, 92873>>, <<92880, 92909>>, <<92912, 92917>>,
    <<92928, 92997>>, <<93008, 93017>>, <<93019, 93025>>, <<93027, 93047>>,
    <<93053, 93071>>, <<93760, 93850>>, <<93952, 94026>>, <<94031, 94087>>,
    <<94095, 94111>>, <<94176, 94180>>, <<94192, 94193>>,
    <<94208, 100343>>, <<100352, 101589>>, <<101632, 101640>>,
    <<110576, 110579>>, <<110581, 110587>>, <<110589, 110590>>,
    <<110592, 110882>>, <<110898, 110898>>, <<110928, 110930>>,
    <<110933, 110933>>, <<110948, 110951>>, <<110960, 111355>>,
    <<113664, 113770>>, <<113776, 113788>>, <<113792, 113800>>,
    <<113808, 113817>>, <<113820, 113823>>, <<118528, 118573>>,
    <<118576, 118598>>, <<118608, 118723>>, <<118784, 119029>>,
    <<119040, 119078>>, <<119081, 119154>>, <<119163, 119274>>,
    <<119296, 119365>>, <<119488, 119507>>, <<119520, 119539>>,
    <<119552, 119638>>, <<119648, 119672>>, <<119808, 119892>>,
    <<119894, 119964>>, <<119966, 119967>>, <<119970, 119970>>,
    <<119973, 119974>>, <<119977, 119980>>, <<119982, 119993>>,
    <<119995, 119995>>, <<119997, 120003>>, <<120005, 120069>>,
    <<120071, 120074>>, <<120077, 120084>>, <<120086, 120092>>,
    <<120094, 120121>>, <<120123, 120126>>, <<120128, 120132>>,
    <<120134, 120134>>, <<120138, 120144>>, <<120146, 120485>>,
    <<120488, 120779>>, <<120782, 121483>>, <<121499, 121503>>,
    <<121505, 121519>>, <<122624, 122654>>, <<122661, 122666>>,
    <<122880, 122886>>, <<122888, 122904>>, <<122907, 122913>>,
    <<122915, 122916>>, <<122918, 122922>>, <<122928, 122989>>,
    <<123023, 123023>>, <<123136, 123180>>, <<123184, 123197>>,
    <<123200, 123209>>, <<123214, 123215>>, <<123536, 123566>>,
    <<123584, 123641>>, <<123647, 123647>>, <<124112, 124153>>,
    <<124896, 124902>>, <<124904, 124907>>, <<124909, 124910>>,
    <<124912, 124926>>, <<124928, 125124>>, <<125127, 125142>>,
    <<125184, 125259>>, <<125264, 125273>>, <<125278, 125279>>,
    <<126065, 126132>>, <<126209, 126269>>, <<126464, 126467>>,
    <<126469, 126495>>, <<126497, 126498>>, <<126500, 126500>>,
    <<126503, 126503>>, <<126505, 126514>>, <<126516, 126519>>,
    <<126521, 126521>>, <<126523, 126523>>, <<126530, 126530>>,
    <<126535, 126535>>, <<126537, 126537>>, <<126539, 126539>>,
    <<126541, 126543>>, <<126545, 126546>>, <<126548, 126548>>,
    <<126551, 126551>>, <<126553, 126553>>, <<126555, 126555>>,
    <<126557, 126557>>, <<126559, 126559>>, <<126561, 126562>>,
    <<126564, 126564>>, <<126567, 126570>>, <<126572, 126578>>,
    <<126580, 126583>>, <<126585, 126588>>, <<126590, 126590>>,
    <<126592, 126601>>, <<126603, 126619>>, <<126625, 126627>>,
    <<126629, 126633>>, <<126635, 126651>>, <<126704, 126705>>,
    <<126976, 127019>>, <<127024, 127123>>, <<127136, 127150>>,
    <<127153, 127167>>, <<127169, 127183>>, <<127185, 127221>>,
    <<127232, 127405>>, <<127462, 127490>>, <<127504, 127547>>,
    <<127552, 127560>>, <<127568, 127569>>, <<127584, 127589>>,
    <<127744, 128727>>, <<128732, 128748>>, <<128752, 128764>>,
    <<128768, 128886>>, <<128891, 128985>>, <<128992, 129003>>,
    <<129008, 129008>>, <<129024, 129035>>, <<129040, 129095>>,
    <<129104, 129113>>, <<129120, 129159>>, <<129168, 129197>>,
    <<129200, 129201>>, <<129280, 129619>>, <<129632, 129645>>,
    <<129648, 129660>>, <<129664, 129672>>, <<129680, 129725>>,
    <<129727, 129733>>, <<129742, 129755>>, <<129760, 129768>>,
    <<129776, 129784>>, <<129792, 129938>>, <<129940, 129994>>,
    <<130032, 130041>>, <<131072, 173791>>, <<173824, 177977>>,
    <<177984, 178205>>, <<178208, 183969>>, <<183984, 191456>>,
    <<194560, 195101>>, <<196608, 201546>>, <<201552, 205743>>,
    <<917760, 917999>>>>

\* strconv.IsPrint
IsPrint(r) ==
  \E i \in 1..Len(PrintRanges) :
    PrintRanges[i][1] <= r /\ r <= PrintRanges[i][2]

\* the characters of the codes 32..95, 97..126 and 127..255
Chars32 == " !\"#$%&'()*+,-./0123456789:;<=>?@ABCDEFGHIJKLMNOPQRSTUVWXYZ[\\]^_"
Chars97 == "abcdefghijklmnopqrstuvwxyz{|}~"
Chars127 == " ¡¢£¤¥¦§¨©ª«¬­®¯°±²³´µ¶·¸¹º»¼½¾¿ÀÁÂÃÄÅÆÇÈÉÊËÌÍÎÏÐÑÒÓÔÕÖ×ØÙÚÛÜÝÞßàáâãäåæçèéêëìíîïðñòóôõö÷øùúûüýþÿ"

\* string(resp.Result), the conversion of the int to a string: the
\* character of that code, and U+FFFD for an int that is the code of no
\* character.  A string of one character that cannot be written in a string
\* of TLA+ (the grave accent, most control characters and most characters
\* above U+00FF) is given as the sequence of its code.
RuneString(n) ==
  LET num == Numeral(n)
      v   == IF Ch(num, 1) # "-" /\ Len(num) <= 7 THEN DecVal(num) ELSE -1
  IN  CASE v \in 32..95 -> Ch(Chars32, v - 31)
        [] v \in 97..126 -> Ch(Chars97, v - 96)
        [] v \in 127..255 -> Ch(Chars127, v - 126)
        [] v = 9 -> "\t"
        [] v = 10 -> "\n"
        [] v = 12 -> "\f"
        [] v = 13 -> "\r"
        [] v < 0 \/ v > 1114111 \/ v \in 55296..57343 \/ v = 65533 -> "�"
        [] OTHER -> <<v>>

\* Response.Res (lines 80-82)
Res(r) == <<r.ResultString, r.Error>>

\* line 496: Command has returned and WaitForDigit clears ResultString
WaitForDigitClears(c) ==
  /\ wfd[c] = "called"
  /\ pc[c] = "done"
  /\ resp' = [resp EXCEPT ![c].ResultString = ""]
  /\ wfd' = [wfd EXCEPT ![c] = "cleared"]
  /\ UNCHANGED <<mu, pc, timeout, raw, reader, todo, taken, pos, waitC, timer,
                 out, eof, nread, ret>>
  /\ UNCHANGED <<hvars, lvars>>

\* lines 497-500: with no error and the result the code of a printable
\* character, ResultString becomes that character; WaitForDigit returns
\* Res() of the Response
WaitForDigitReturns(c) ==
  /\ wfd[c] = "cleared"
  /\ resp' = [resp EXCEPT ![c].ResultString =
                IF resp[c].Error = Nil /\ IsPrint(Rune(resp[c].Result))
                THEN RuneString(resp[c].Result)
                ELSE resp[c].ResultString]
  /\ wfd' = [wfd EXCEPT ![c] = "returned"]
  /\ UNCHANGED <<mu, pc, timeout, raw, reader, todo, taken, pos, waitC, timer,
                 out, eof, nread, ret>>
  /\ UNCHANGED <<hvars, lvars>>

\* every Command call is the one of a call of WaitForDigit: its timeout is 0
DigitInit ==
  /\ CommandInit
  /\ timeout = [c \in Calls |-> 0]
  /\ wfd = [c \in Calls |-> "called"]
  /\ NoHandshake
  /\ NoListen

\* the steps of Command with timeout 0 and those of WaitForDigit after it
DigitNext ==
  \/ \E c \in Calls : Lock(c)
  \/ \E c \in Calls : WriteError(c)
  \/ \E c \in Calls : WriteOK(c)
  \/ \E c \in Calls : ReaderBuffered(c)
  \/ \E c \in Calls : ReaderRead(c)
  \/ \E c \in Calls : ReaderStore(c)
  \/ \E c \in Calls : ReaderEOF(c)
  \/ \E c \in Calls : RecvWaitC(c)
  \/ \E c \in Calls : WaitForDigitClears(c)
  \/ \E c \in Calls : WaitForDigitReturns(c)

DigitSpec == DigitInit /\ [][DigitNext]_vars

(***************************************************************************)
(* NewWithEAGI called on its own (New, NewStdio, NewEAGI: lines 121-166).  *)
(***************************************************************************)
\* a call of NewWithEAGI on a stream that delivers one of the inputs
HandshakeInit ==
  /\ CommandInit
  /\ NoDigit
  /\ timeout = [c \in Calls |-> 0]
  /\ hsIn \in HandshakeInputs
  /\ hsPc = "call"
  /\ hsA = ZeroSession
  /\ NoListen

\* lines 128-149: the loop has ended, the scanner having read the lines
\* that had arrived, and NewWithEAGI returns the session
NewWithEAGIReturns ==
  /\ hsPc = "call"
  /\ HandshakeEnds(hsIn)
  /\ \E n \in ScannerTakes(hsIn) : hsA' = NewWithEAGI(hsIn, n)
  /\ hsPc' = "returned"
  /\ UNCHANGED <<hsIn, cvars, lvars, dvars>>

HandshakeNext == NewWithEAGIReturns

HandshakeSpec == HandshakeInit /\ [][HandshakeNext]_vars

(***************************************************************************)
(* Listen (lines 169-188), NewConn (152-156), Close (198-204) and the      *)
(* handlers.                                                               *)
(***************************************************************************)
\* what the peers of the accepted connections send for the handshake: a
\* block, a block with a key given twice, lines with no empty line after
\* them on a stream left open, and a line after which the peer closes
ListenPeers ==
  {[lines |-> <<"a: 1", "">>, closed |-> FALSE],
   [lines |-> <<"b : x ", " a :2:3 ", "">>, closed |-> FALSE],
   [lines |-> <<"a: 1">>, closed |-> FALSE],
   [lines |-> <<"b">>, closed |-> TRUE]}

\* NewConn(conn): New(conn, conn), and a.conn = conn
NewConn(in, n) == [NewWithEAGI(in, n) EXCEPT !.conn = TRUE]

\* Listen has bound its address and enters the loop
ListenInit ==
  /\ CommandInit
  /\ NoDigit
  /\ timeout = [c \in Calls |-> 0]
  /\ NoHandshake
  /\ lpc = "accept"
  /\ accepted = 0
  /\ peer = [k \in Conns |-> SilentPeer]
  /\ sess = [k \in Conns |-> "none"]
  /\ agi = [k \in Conns |-> ZeroSession]
  /\ sock = [k \in Conns |-> "none"]
  /\ hcmd = [k \in Conns |-> "idle"]
  /\ amu = [k \in Conns |-> FALSE]

\* line 181: l.Accept() returns a connection; the call NewConn(conn), the
\* argument of the go statement, starts in the loop's goroutine
Accept ==
  /\ lpc = "accept"
  /\ accepted < MaxConns
  /\ \E in \in ListenPeers :
       /\ accepted' = accepted + 1
       /\ peer' = [peer EXCEPT ![accepted + 1] = in]
       /\ sess' = [sess EXCEPT ![accepted + 1] = "newconn"]
       /\ sock' = [sock EXCEPT ![accepted + 1] = "open"]
       /\ lpc' = "newconn"
  /\ UNCHANGED <<agi, hcmd, amu, cvars, hvars, dvars>>

\* lines 181-184: l.Accept() returns an error and Listen returns it
AcceptFails ==
  /\ lpc = "accept"
  /\ lpc' = "returned"
  /\ UNCHANGED <<accepted, peer, sess, agi, sock, hcmd, amu, cvars, hvars, dvars>>

\* a bug: the handler is called in the loop's goroutine (no go statement)
StartHandler_InLoop ==
  /\ lpc = "newconn"
  /\ HandshakeEnds(peer[accepted])
  /\ \E n \in ScannerTakes(peer[accepted]) :
       agi' = [agi EXCEPT ![accepted] = NewConn(peer[accepted], n)]
  /\ sess' = [sess EXCEPT ![accepted] = "handler"]
  /\ lpc' = "handler"
  /\ UNCHANGED <<accepted, peer, sock, hcmd, amu, cvars, hvars, dvars>>

\* line 186: NewConn(conn) returns the session (its handshake loop has
\* ended), the go statement starts the handler on a goroutine of its own
\* and the loop goes back to l.Accept()
StartHandler ==
  /\ lpc = "newconn"
  /\ HandshakeEnds(peer[accepted])
  /\ \E n \in ScannerTakes(peer[accepted]) :
       agi' = [agi EXCEPT ![accepted] = NewConn(peer[accepted], n)]
  /\ sess' = [sess EXCEPT ![accepted] = "handler"]
  /\ lpc' = "accept"
  /\ UNCHANGED <<accepted, peer, sock, hcmd, amu, cvars, hvars, dvars>>

\* a bug: one mutex for all sessions
SessionMutexFree_OneForAll(k) == \A j \in Conns : ~amu[j]

\* a.mu of the session of connection k is free
SessionMutexFree(k) == ~amu[k]

\* lines 214-220: the handler of connection k calls a.Command, which takes
\* a.mu
HandlerCommand(k) ==
  /\ sess[k] = "handler"
  /\ hcmd[k] = "idle"
  /\ SessionMutexFree(k)
  /\ amu' = [amu EXCEPT ![k] = TRUE]
  /\ hcmd' = [hcmd EXCEPT ![k] = "write"]
  /\ UNCHANGED <<lpc, accepted, peer, sess, agi, sock, cvars, hvars, dvars>>

\* lines 222-226: a.w.Write on the connection: on a closed one it fails and
\* Command returns (the deferred Unlock runs), else Command goes on to wait
\* for the reply
CommandWrite(k) ==
  /\ hcmd[k] = "write"
  /\ IF sock[k] = "open"
     THEN hcmd' = [hcmd EXCEPT ![k] = "wait"] /\ amu' = amu
     ELSE hcmd' = [hcmd EXCEPT ![k] = "idle"]
          /\ amu' = [amu EXCEPT ![k] = FALSE]
  /\ UNCHANGED <<lpc, accepted, peer, sess, agi, sock, cvars, hvars, dvars>>

\* lines 228-292: the reader of the call has read from the connection (or
\* the timer fired) and Command returns; the deferred Unlock runs
CommandRead(k) ==
  /\ hcmd[k] = "wait"
  /\ hcmd' = [hcmd EXCEPT ![k] = "idle"]
  /\ amu' = [amu EXCEPT ![k] = FALSE]
  /\ UNCHANGED <<lpc, accepted, peer, sess, agi, sock, cvars, hvars, dvars>>

\* lines 198-204: the handler of connection k calls a.Close() on a session
\* whose a.conn is set
Close(k) ==
  /\ sess[k] = "handler"
  /\ hcmd[k] = "idle"
  /\ agi[k].conn
  /\ sock' = [sock EXCEPT ![k] = "closed"]
  /\ agi' = [agi EXCEPT ![k].conn = FALSE]
  /\ UNCHANGED <<lpc, accepted, peer, sess, hcmd, amu, cvars, hvars, dvars>>

\* the handler of connection k returns: its goroutine ends (line 186:
\* nothing follows the call of the handler)
HandlerReturns(k) ==
  /\ sess[k] = "handler"
  /\ hcmd[k] = "idle"
  /\ sess' = [sess EXCEPT ![k] = "returned"]
  /\ UNCHANGED <<lpc, accepted, peer, agi, sock, hcmd, amu, cvars, hvars, dvars>>

ListenNext ==
  \/ Accept
  \/ AcceptFails
  \/ StartHandler
  \/ \E k \in Conns : HandlerCommand(k)
  \/ \E k \in Conns : CommandWrite(k)
  \/ \E k \in Conns : CommandRead(k)
  \/ \E k \in Conns : Close(k)
  \/ \E k \in Conns : HandlerReturns(k)

ListenSpec == ListenInit /\ [][ListenNext]_vars

(***************************************************************************)
(* What the claims speak of.                                               *)
(***************************************************************************)
\* the calls whose command is on the output stream
Writers == {out[i].call : i \in 1..Len(out)}

\* Command returned for call c
Returned(c) == pc[c] = "done"

\* Command returned for call c after its Write failed
SendFailed(c) == Returned(c) /\ c \notin Writers

\* Command returned for call c after receiving from waitC: the reader has
\* sent its value and the value was taken
Replied(c) ==
  Returned(c) /\ c \in Writers /\ reader[c] = "done" /\ waitC[c] = 0

\* Command returned for call c through the timer's case of the select
TimedOut(c) == Returned(c) /\ c \in Writers /\ ~Replied(c)

\* the lines Scan has returned to the reader of call c
Scanned(c) == SubSeq(taken[c], 1, pos[c])

\* the lines before the last one Scan returned are all HANGUP lines
OnlyHangupBeforeLast(c) ==
  /\ pos[c] >= 1
  /\ \A i \in 1..(pos[c] - 1) : HasPrefix(taken[c][i], "HANGUP")

\* the last line Scan returned to the reader of call c
LastLine(c) == taken[c][pos[c]]

\* a line that matches the reply grammar
WellFormed(line) == responseRegex(line) # NoMatch

\* a.r is being read for call c: its reader goroutine is in s.Scan()
Reading(c) == reader[c] = "run"

(***************************************************************************)
(* C1: the commands written to the output stream never interleave.  The    *)
(* lock is held by a call from before its write until it returns, and when *)
(* a call's command is on the output stream after another call's, that     *)
(* other call has returned.                                                *)
(***************************************************************************)
C1_CommandsNeverInterleave ==
  /\ \A c \in Calls : pc[c] \in {"write", "wait", "timedout"} => mu = c
  /\ \A i, j \in 1..Len(out) :
       i < j /\ out[i].call # out[j].call => Returned(out[i].call)
  /\ \A i \in 1..Len(out) : out[i].bytes = CmdBytes(out[i].call)

\* two commands were written, the first by a call that ended in a timeout
C1_Witness ==
  /\ Len(out) = 2
  /\ out[1].call # out[2].call
  /\ TimedOut(out[1].call)
  /\ pc[out[2].call] = "wait"

(***************************************************************************)
(* C2: at every moment at most one reader started by Command is reading    *)
(* the input stream, also after calls that ended in a timeout.             *)
(***************************************************************************)
C2_AtMostOneReader == Cardinality({c \in Calls : Reading(c)}) <= 1

(***************************************************************************)
(* C3: when a call with a positive timeout returned the timeout error      *)
(* before its reader read any line, the next line to be read from the      *)
(* stream is read by the reader of the next Command call (the call that    *)
(* takes the lock next), not by anything else.                             *)
(***************************************************************************)
C3_StrayReplyReadByNextCommand ==
  [][\A c \in Calls :
       (/\ TimedOut(c)
        /\ timeout[c] > 0
        /\ taken[c] = <<>>
        /\ c + 1 \in Calls
        /\ taken[c + 1] = <<>>
        /\ nread' > nread)
       => (/\ taken'[c] = <<>>
           /\ taken'[c + 1] # <<>>
           /\ raw'[c + 1] = taken'[c + 1][1])]_vars

(***************************************************************************)
(* C4: for every Response that Command returned, Error is nil if and only  *)
(* if Status is 200 and a reply line was parsed against the grammar.       *)
(***************************************************************************)
C4_ErrorNilIffStatusOK ==
  \A c \in Calls :
    Returned(c) =>
      (ret[c].Error = Nil <=>
         (/\ ret[c].Status = StatusOK
          /\ reader[c] = "done"
          /\ pos[c] >= 1
          /\ WellFormed(LastLine(c))))

(***************************************************************************)
(* C5: a reply line that matches the grammar with a result token that is   *)
(* not an integer is parsed with no error: ResultString is the token,      *)
(* Result is zero, and with status 200 the Response returned has Error nil. *)
(***************************************************************************)
C5_NonIntegerTokenIsNoError ==
  \A c \in Calls :
    (/\ Replied(c)
     /\ OnlyHangupBeforeLast(c)
     /\ WellFormed(LastLine(c))
     /\ Atoi(responseRegex(LastLine(c))[3]).err # Nil)
    => (/\ ret[c].ResultString = responseRegex(LastLine(c))[3]
        /\ ret[c].Result = 0
        /\ (ret[c].Status = StatusOK => ret[c].Error = Nil))

(***************************************************************************)
(* C6: a call with a positive timeout whose write succeeded eventually     *)
(* returns: a call leaves its wait only towards its return, and again and  *)
(* again no call with a positive timeout is between its write and its      *)
(* return.  A call takes the timer's case of the select only when its      *)
(* timeout is positive and the timer has fired, and when a call returns    *)
(* while its reader has read no line and has not seen the end of the       *)
(* stream, it returns through that case and the Response carries the       *)
(* timeout error alone.                                                    *)
(***************************************************************************)
C6_TimeoutReturnsAfterTimer ==
  /\ []<>(\A c \in Calls :
            timeout[c] > 0 => pc[c] \notin {"wait", "timedout"})
  /\ [][\A c \in Calls :
          /\ pc[c] = "wait" => pc'[c] \in {"wait", "timedout", "done"}
          /\ pc[c] = "timedout" => pc'[c] \in {"timedout", "done"}]_vars
  /\ [][\A c \in Calls :
          (pc[c] # "timedout" /\ pc'[c] = "timedout")
          => (pc[c] = "wait" /\ timeout[c] > 0 /\ timer[c] = "fired")]_vars
  /\ [][\A c \in Calls :
          (/\ pc[c] # "done"
           /\ pc'[c] = "done"
           /\ c \in Writers
           /\ taken'[c] = <<>>
           /\ reader'[c] = "run")
          => (/\ pc[c] = "timedout"
              /\ ret'[c] = [ZeroResponse EXCEPT !.Error = "timeout"]
              /\ resp'[c] = ret'[c])]_vars

\* a call returned the timeout error and its peer has sent nothing
C6_Witness ==
  \E c \in Calls :
    /\ TimedOut(c)
    /\ timeout[c] > 0
    /\ nread = 0
    /\ ~eof
    /\ ret[c] = [ZeroResponse EXCEPT !.Error = "timeout"]

(***************************************************************************)
(* C7: when the write of the command fails, Command returns a Response in  *)
(* which only Error is set, no reader was started and nothing was read     *)
(* from the input stream for the call, and the lock is released.           *)
(***************************************************************************)
C7_WriteErrorReturnsAtOnce ==
  \A c \in Calls :
    SendFailed(c) =>
      /\ ret[c] = [ZeroResponse EXCEPT
                     !.Error = "failed to send command: " \o WriteErr]
      /\ resp[c] = ret[c]
      /\ reader[c] = "none"
      /\ taken[c] = <<>>
      /\ waitC[c] = 0
      /\ mu # c

\* the write of the first call failed and the next call holds the lock and
\* waits for its reply
C7_Witness ==
  /\ SendFailed(1)
  /\ mu = 2
  /\ pc[2] = "wait"
  /\ reader[2] = "run"

(***************************************************************************)
(* C8: when the reply to a Command is a well-formed line with a status     *)
(* other than 200, the Response has a non-nil Error and the parsed Status, *)
(* and the session stays usable: the call's reader has stopped, the lock   *)
(* is free for the next call, and the next call returns the parse of the   *)
(* reply line its own reader reads.                                        *)
(***************************************************************************)
C8_NonOKStatusKeepsSessionUsable ==
  \A c \in Calls :
    (/\ Replied(c)
     /\ OnlyHangupBeforeLast(c)
     /\ WellFormed(LastLine(c))
     /\ SubSeq(LastLine(c), 1, 3) # "200")
    => /\ ret[c].Error # Nil
       /\ ret[c].Status = DecVal(SubSeq(LastLine(c), 1, 3))
       /\ ret[c].Status # StatusOK
       /\ Atoi(ret[c].ResultString).err = Nil
            => ret[c].Error = Errorf("Non-200 status code. " \o LastLine(c))
       /\ reader[c] = "done"
       /\ mu # c
       /\ (c + 1) \in Calls =>
            /\ pc[c + 1] = "lock" => (mu = NoCall /\ ENABLED Lock(c + 1))
            /\ pc[c + 1] \in {"wait", "timedout"}
                 => (mu = c + 1 /\ (c + 1) \in Writers)
            /\ (/\ Replied(c + 1)
                /\ OnlyHangupBeforeLast(c + 1)
                /\ WellFormed(LastLine(c + 1)))
               => ret[c + 1] = NonOK(ParseReply(ZeroResponse, LastLine(c + 1)),
                                     LastLine(c + 1))

\* the first call got a 510 reply, the next call a 200 reply with no error
C8_Witness ==
  /\ Replied(1)
  /\ Scanned(1) = <<"510 result=-1 (x)">>
  /\ ret[1].Status = 510
  /\ ret[1].Result = -1
  /\ ret[1].Value = "x"
  /\ Replied(2)
  /\ Scanned(2) = <<"200 result=1">>
  /\ ret[2] = [Error |-> Nil, Status |-> 200, Result |-> 1,
               ResultString |-> "1", Value |-> ""]

(***************************************************************************)
(* C9: every line that begins with HANGUP is skipped without ending the    *)
(* read and without setting an error; when HANGUP lines are followed by a  *)
(* well-formed reply line, the Response returned is the parse of that      *)
(* reply line.                                                             *)
(***************************************************************************)
C9_HangupLinesSkipped ==
  \A c \in Calls :
    /\ (/\ pos[c] >= 1
        /\ \A i \in 1..pos[c] : HasPrefix(taken[c][i], "HANGUP"))
       => /\ reader[c] = "run" \/ eof
          /\ todo[c] = <<>>
          /\ resp[c].Status = 0
          /\ pc[c] = "wait" => resp[c] = ZeroResponse
    /\ (/\ Replied(c)
        /\ OnlyHangupBeforeLast(c)
        /\ WellFormed(LastLine(c)))
       => /\ ret[c] = NonOK(ParseReply(ZeroResponse, LastLine(c)), LastLine(c))
          /\ ret[c].Status = DecVal(SubSeq(LastLine(c), 1, 3))
          /\ ret[c].Error # "failed to parse result: " \o LastLine(c)

\* a call read a HANGUP line and then a reply line, and returned the reply
C9_Witness ==
  \E c \in Calls :
    /\ Replied(c)
    /\ Scanned(c) = <<"HANGUP", "200 result=1">>
    /\ ret[c] = [Error |-> Nil, Status |-> 200, Result |-> 1,
                 ResultString |-> "1", Value |-> ""]

(***************************************************************************)
(* C10: when the first line read for a Command that is not a HANGUP line   *)
(* is non-empty and does not match the grammar, Command returns a parse    *)
(* error and no line after the malformed one is consumed from the input    *)
(* stream for that command.                                                *)
(***************************************************************************)
C10_NothingConsumedAfterMalformedLine ==
  \A c \in Calls :
    (/\ reader[c] = "done"
     /\ OnlyHangupBeforeLast(c)
     /\ LastLine(c) # ""
     /\ ~HasPrefix(LastLine(c), "HANGUP")
     /\ ~WellFormed(LastLine(c)))
    => /\ Replied(c) => ret[c].Error = "failed to parse result: " \o LastLine(c)
       /\ Len(taken[c]) = pos[c]

(***************************************************************************)
(* C16: once Command has returned a Response for a call, no field of that  *)
(* Response is modified afterwards: the Response the caller holds stays    *)
(* the one that was returned, also after a return with the timeout error   *)
(* while the reader of the call is still running.                          *)
(***************************************************************************)
C16_ReturnedResponseNeverModified ==
  \A c \in Calls : Returned(c) => resp[c] = ret[c]

(***************************************************************************)
(* C19: a call with timeout zero never takes the timer's case of the       *)
(* select and never returns the timeout error.  It returns only after its  *)
(* reader has stopped, and it holds the lock until then: while its reader  *)
(* has not stopped (the peer has sent nothing that ends the read) the call *)
(* stays in its wait, no timer runs for it, and every other call that      *)
(* waits for the lock keeps waiting.                                       *)
(***************************************************************************)
C19_ZeroTimeoutWaitsForReader ==
  /\ [](\A c \in Calls :
          timeout[c] = 0 =>
            /\ pc[c] # "timedout"
            /\ ret[c].Error # "timeout"
            /\ (Returned(c) /\ c \in Writers) => Replied(c)
            /\ pc[c] = "wait" => (mu = c /\ timer[c] = "off"))
  /\ [][\A c \in Calls :
          (timeout[c] = 0 /\ pc[c] = "wait" /\ reader'[c] # "done")
          => /\ pc'[c] = "wait"
             /\ mu' = c
             /\ \A d \in Calls : pc[d] = "lock" => pc'[d] = "lock"]_vars

\* the first call, with timeout zero, holds the lock and waits for a peer
\* that has sent nothing, and the other call waits for the lock
C19_Witness ==
  /\ timeout[1] = 0
  /\ pc[1] = "wait"
  /\ mu = 1
  /\ reader[1] = "run"
  /\ taken[1] = <<>>
  /\ nread = 0
  /\ ~eof
  /\ pc[2] = "lock"

\* the reader of call c stopped at an empty line or at the end of the stream
\* and no line it was given before is a reply line: they are HANGUP lines
StoppedWithoutReply(c) ==
  /\ reader[c] = "done"
  /\ \A i \in 1..pos[c] :
       \/ IsHangup(taken[c][i])
       \/ i = pos[c] /\ taken[c][i] = ""

(***************************************************************************)
(* C20: when the reader of a call whose write succeeded stopped at the     *)
(* end of the stream or at an empty line before any reply line, Command    *)
(* returns a Response with Status 0 and a non-nil Error (the non-200 error *)
(* with the last line read, when the return is not the timeout's); and no  *)
(* Response is returned with a nil Error unless the last line its reader   *)
(* read is a reply line that matches the grammar.                          *)
(***************************************************************************)
C20_NoReplyLineIsAnError ==
  \A c \in Calls :
    /\ (Returned(c) /\ c \in Writers /\ StoppedWithoutReply(c))
       => /\ ret[c].Status = 0
          /\ ret[c].Error # Nil
          /\ Replied(c) =>
               ret[c] = [ZeroResponse EXCEPT
                           !.Error = Errorf("Non-200 status code. " \o raw[c])]
          /\ raw[c] = IF pos[c] = 0 THEN "" ELSE LastLine(c)
    /\ (Returned(c) /\ ret[c].Error = Nil)
       => /\ c \in Writers
          /\ reader[c] = "done"
          /\ pos[c] >= 1
          /\ ~IsHangup(LastLine(c))
          /\ WellFormed(LastLine(c))

\* the first call read an empty line, the other one a HANGUP line and then
\* the end of the stream; both returned the non-200 error
C20_Witness ==
  /\ Replied(1)
  /\ Scanned(1) = <<"">>
  /\ ret[1] = [ZeroResponse EXCEPT !.Error = "Non-200 status code. "]
  /\ Replied(2)
  /\ Scanned(2) = <<"HANGUP">>
  /\ eof
  /\ ret[2] = [ZeroResponse EXCEPT !.Error = "Non-200 status code. HANGUP"]

\* the run so far is one in which no call can time out and the peer has sent
\* one reply line that matches the grammar for a command it received, and
\* nothing else: every read of the stream was given one such line
OneReplyPerCommand ==
  /\ \A c \in Calls : timeout[c] = 0
  /\ ~eof
  /\ \A c \in Calls :
       /\ Len(taken[c]) <= 1
       /\ \A i \in 1..Len(taken[c]) : WellFormed(taken[c][i])

\* the place of the command of call c on the output stream
OutIndex(c) == CHOOSE i \in 1..Len(out) : out[i].call = c

\* C15 as the specification states it: in a run with no timeout and one
\* well-formed reply line per command received, the k-th call to take the
\* lock is given the k-th line of the input stream
C15_KthLockGetsKthReply ==
  [][(OneReplyPerCommand /\ OneReplyPerCommand')
     => \A c \in Calls : taken'[c] # taken[c] => nread' = c]_vars

(***************************************************************************)
(* C15 (amended): in a run with no timeout and one well-formed reply line  *)
(* per command received, the call whose command is the k-th on the output  *)
(* stream is given the k-th line of the input stream, and it returns the   *)
(* parse of that line.  (A call whose write failed returns the send error  *)
(* and takes no line.)                                                     *)
(***************************************************************************)
C15_RepliesMatchedInStreamOrder ==
  /\ [](OneReplyPerCommand =>
          \A c \in Calls :
            /\ Replied(c) =>
                 /\ Len(taken[c]) = 1
                 /\ ret[c] = NonOK(ParseReply(ZeroResponse, taken[c][1]),
                                   taken[c][1])
            /\ SendFailed(c) => taken[c] = <<>>)
  /\ [][(OneReplyPerCommand /\ OneReplyPerCommand')
        => \A c \in Calls :
             taken'[c] # taken[c] =>
               /\ c \in Writers
               /\ nread' = OutIndex(c)
               /\ pc[c] = "wait"]_vars

\* two calls with no timeout were given one reply line each, the first the
\* 510 line and the second the 200 line, and returned them
C15_Witness ==
  /\ OneReplyPerCommand
  /\ out = <<[call |-> 1, bytes |-> CmdBytes(1)],
             [call |-> 2, bytes |-> CmdBytes(2)]>>
  /\ Replied(1)
  /\ taken[1] = <<"510 result=-1 (x)">>
  /\ ret[1].Status = 510
  /\ Replied(2)
  /\ taken[2] = <<"200 result=1">>
  /\ ret[2] = [Error |-> Nil, Status |-> 200, Result |-> 1,
               ResultString |-> "1", Value |-> ""]

(***************************************************************************)
(* C18: concurrent calls on one session are queued, not rejected.  When    *)
(* every call has a positive timeout, then with a fair lock and writes     *)
(* that complete every call eventually has returned, whatever the peer     *)
(* sends or does not send; and a call that waits for the lock goes on only *)
(* by taking it: it holds the lock when it attempts its write, and it      *)
(* does not return before.                                                 *)
(***************************************************************************)
C18_ConcurrentCallsAreQueued ==
  /\ (\A d \in Calls : timeout[d] > 0) ~> (\A c \in Calls : Returned(c))
  /\ [][\A c \in Calls :
          pc[c] = "lock" =>
            \/ pc'[c] = "lock"
            \/ pc'[c] = "write" /\ mu = NoCall /\ mu' = c]_vars

\* two calls with positive timeouts both returned, the second having waited
\* for the lock while the first held it, against a peer that sent nothing
C18_Witness ==
  /\ \A c \in Calls : timeout[c] > 0
  /\ TimedOut(1)
  /\ TimedOut(2)
  /\ out = <<[call |-> 1, bytes |-> CmdBytes(1)],
             [call |-> 2, bytes |-> CmdBytes(2)]>>
  /\ nread = 0
  /\ ~eof

\* the handshake block of the lines: the lines before the first empty one
HandshakeBlock(lines) ==
  IF \E i \in 1..Len(lines) : lines[i] = ""
  THEN SubSeq(lines, 1,
              (CHOOSE i \in 1..Len(lines) :
                 lines[i] = "" /\ \A j \in 1..(i - 1) : lines[j] # "") - 1)
  ELSE lines

\* the line holds a colon
HasColon(line) == \E i \in 1..Len(line) : Ch(line, i) = ":"

\* the place of the first colon of a line that holds one
FirstColon(line) ==
  CHOOSE i \in 1..Len(line) :
    Ch(line, i) = ":" /\ \A j \in 1..(i - 1) : Ch(line, j) # ":"

\* what is before the first colon of the line, and what is after it, both
\* trimmed
KeyOf(line) == TrimSpace(SubSeq(line, 1, FirstColon(line) - 1))
ValueOf(line) == TrimSpace(SubSeq(line, FirstColon(line) + 1, Len(line)))

\* the Variables of the session are those of the handshake block of the
\* input: exactly the trimmed keys of the lines of the block that hold a
\* colon, split at the first colon, each with the trimmed value of the last
\* line of the block with that key; the loop looked at the lines of the
\* block and the empty line, and at no line after it
VariablesOfBlock ==
  LET B == HandshakeBlock(hsIn.lines)
      V == hsA.Variables
      colon == {i \in 1..Len(B) : HasColon(B[i])}
  IN  /\ DOMAIN V = {KeyOf(B[i]) : i \in colon}
      /\ \A i \in colon :
           (\A j \in colon : j > i => KeyOf(B[j]) # KeyOf(B[i]))
           => V[KeyOf(B[i])] = ValueOf(B[i])
      /\ hsA.scanned = Len(B) + 1

(***************************************************************************)
(* C11: for a handshake input that holds an empty line, the Variables of   *)
(* the session NewWithEAGI returns have exactly the trimmed keys of the    *)
(* lines of the block (the lines before the first empty line) that hold a  *)
(* colon, split at the first colon; each key has the trimmed value of the  *)
(* last line of the block with that key; lines without a colon add         *)
(* nothing; and reading stops at the first empty line: the lines of the    *)
(* block and the empty line are all that NewWithEAGI has read from the     *)
(* stream.                                                                 *)
(***************************************************************************)
C11_VariablesOfHandshakeBlock ==
  (hsPc = "returned" /\ \E i \in 1..Len(hsIn.lines) : hsIn.lines[i] = "")
  => /\ VariablesOfBlock
     /\ hsA.taken = Len(HandshakeBlock(hsIn.lines)) + 1

\* the Variables are those of the block, whatever was read after it
C11_VariablesHalf ==
  (hsPc = "returned" /\ \E i \in 1..Len(hsIn.lines) : hsIn.lines[i] = "")
  => VariablesOfBlock

\* a block, its empty line and the reply to a first command arrive together:
\* the session has the variable of the block, and its scanner has read the
\* reply
C11_ReplyReadByHandshake ==
  /\ hsPc = "returned"
  /\ hsIn.lines = <<"a: 1", "", "200 result=1">>
  /\ hsA.Variables = ("a" :> "1")
  /\ hsA.scanned = 2
  /\ hsA.taken = 3

\* the handler of connection k is running
HandlerRuns(k) == sess[k] = "handler"

\* the keys of the handshake lines of the peer of connection k
OwnKeys(k) ==
  LET B == HandshakeBlock(peer[k].lines)
  IN  {KeyOf(B[i]) : i \in {j \in 1..Len(B) : HasColon(B[j])}}

(***************************************************************************)
(* C12: Listen runs each handler on a goroutine of its own and does not    *)
(* wait for it.  While a handler runs, however long, the loop of Listen is *)
(* in l.Accept() or in NewConn on a later connection (or Listen has        *)
(* returned after a failed Accept): in l.Accept() it can accept the next   *)
(* connection, and when the handshake of that one has ended it can start   *)
(* its handler.                                                            *)
(***************************************************************************)
C12_ListenDoesNotWaitForHandlers ==
  \A k \in Conns :
    HandlerRuns(k) =>
      /\ lpc \in {"accept", "newconn", "returned"}
      /\ lpc = "newconn" => accepted > k
      /\ (lpc = "accept" /\ accepted < MaxConns) => ENABLED Accept
      /\ (lpc = "newconn" /\ HandshakeEnds(peer[accepted]))
         => ENABLED StartHandler

\* the handler of the second connection was started while the handler of
\* the first one is in a Command that has not returned
C12_Witness ==
  /\ HandlerRuns(1)
  /\ hcmd[1] = "wait"
  /\ HandlerRuns(2)
  /\ lpc = "accept"

(***************************************************************************)
(* C13: for every session Listen built from an accepted connection, once   *)
(* its handler has returned the connection is closed, whether the handler  *)
(* called Close or not.                                                    *)
(***************************************************************************)
C13_ConnectionClosedAfterHandler ==
  \A k \in Conns : sess[k] = "returned" => sock[k] = "closed"

(***************************************************************************)
(* C14: two sessions built by Listen are independent.  The Variables of a  *)
(* session are those of the handshake of its own connection, with no key   *)
(* but its own, and no step changes them once its handler runs; and a      *)
(* handler can always go on with its Command, whatever the Command of the  *)
(* other session does: it can take the lock of its session, write, and     *)
(* read.                                                                   *)
(***************************************************************************)
C14_SessionsAreIndependent ==
  /\ [](\A k \in Conns :
          /\ sess[k] \in {"handler", "returned"} =>
               /\ agi[k].Variables =
                    NewWithEAGI(peer[k], agi[k].taken).Variables
               /\ DOMAIN agi[k].Variables \subseteq OwnKeys(k)
          /\ HandlerRuns(k) =>
               /\ hcmd[k] = "idle" => ENABLED HandlerCommand(k)
               /\ hcmd[k] = "write" => amu[k] /\ ENABLED CommandWrite(k)
               /\ hcmd[k] = "wait" => amu[k] /\ ENABLED CommandRead(k))
  /\ [][\A k \in Conns :
          sess[k] \in {"handler", "returned"} =>
            /\ agi'[k].Variables = agi[k].Variables
            /\ peer'[k] = peer[k]]_vars

\* two sessions with different Variables, a Command in flight on each
C14_Witness ==
  /\ HandlerRuns(1)
  /\ HandlerRuns(2)
  /\ hcmd[1] = "wait"
  /\ hcmd[2] = "write"
  /\ DOMAIN agi[1].Variables = {"a"}
  /\ agi[1].Variables["a"] = "1"
  /\ DOMAIN agi[2].Variables = {"a", "b"}
  /\ agi[2].Variables["a"] = "2:3"
  /\ agi[2].Variables["b"] = "x"

(***************************************************************************)
(* C17: the loop of Listen goes on whatever the handshake of a connection  *)
(* does: while the peer of an accepted connection has not sent the empty   *)
(* line that ends its handshake (and has not closed), Listen can accept    *)
(* the next connection.                                                    *)
(***************************************************************************)
C17_AcceptDoesNotWaitForHandshake ==
  \A k \in Conns :
    (sess[k] = "newconn" /\ ~HandshakeEnds(peer[k]) /\ accepted < MaxConns)
    => (lpc = "accept" /\ ENABLED Accept)

====
